---- MODULE Spec2Model ----
(***************************************************************************)
(* A model of src/library/dynamic.rs: the memo store adapters, the         *)
(* Subtasker accessor, and the trampoline loop of `execute`, driven by     *)
(* task strategies of three kinds:                                         *)
(*   "any"   - a strategy that may return any outcome the Task interface   *)
(*             lets it return (a Dependency only for a goal the accessor   *)
(*             reports missing),                                           *)
(*   "graph" - a deterministic strategy in the shape of day11's            *)
(*             DynamicSolution: a goal requests its subgoals in order      *)
(*             through the accessor and sums their solutions,              *)
(*   "accessor" - no run at all: direct calls of the accessor on a store.  *)
(***************************************************************************)
EXTENDS Integers, Sequences, FiniteSets, TLC

\* ------------------------------------------------------------------ bounds
NumGoals == 3
MaxLen == 3
CountCap == 2
FibMax == 10
MaxDepth == 6

Goals == 1..NumGoals

\* Solutions, errors and resumable states are opaque to the driver: it only
\* moves them around.  Two of each tell a value from another one.
Sols == {0, 1}
Errs == {1, 2}
Marks == {1, 2}

\* Option<T>: None is the empty sequence, Some(v) the one-element sequence.
None == <<>>
Some(v) == <<v>>

\* The values an "any" strategy writes into the resumable state of `goal`:
\* each names the goal it belongs to.
StateVals(goal) == {<<goal, m>> : m \in Marks}

\* ------------------------------------------------------------ memo store
\* A store is a function whose DOMAIN is the set of goals it holds.
EmptyStore == <<>>

\* A get that never finds the key.
StoreGetAbsent(s, goal) == None

StoreGet(s, goal) == IF goal \in DOMAIN s THEN Some(s[goal]) ELSE None

StoreContains(s, goal) == goal \in DOMAIN s

\* An add that leaves the map as it was.
StoreAddDropped(s, goal, solution) == s

\* An add that keeps the solution already stored under the goal.
StoreAddKeepFirst(s, goal, solution) ==
    [k \in (DOMAIN s) \cup {goal} |-> IF k \in DOMAIN s THEN s[k] ELSE solution]

\* The map after insert(goal, solution); StoreAddOld is insert's return value.
StoreAdd(s, goal, solution) ==
    [k \in (DOMAIN s) \cup {goal} |-> IF k = goal THEN solution ELSE s[k]]

StoreAddOld(s, goal) == StoreGet(s, goal)

\* -------------------------------------------------------------- accessor
\* Result<T, Dependency>: tag "Ok" with the value, or "Dep" with the key.
ResOk(v) == [tag |-> "Ok", val |-> v]
ResDep(key) == [tag |-> "Dep", val |-> key]

\* A solve that hands out a default solution for a goal the store lacks.
SubtaskerSolveDefault(s, goal) ==
    [tag |-> "Ok", val |-> IF goal \in DOMAIN s THEN s[goal] ELSE 0]

\* A solve that reports every goal missing, stored or not.
SubtaskerSolveAlwaysMissing(s, goal) == [tag |-> "Dep", val |-> goal]

SubtaskerSolve(s, goal) ==
    LET r == StoreGet(s, goal)
    IN  IF r # None THEN ResOk(r[1]) ELSE ResDep(goal)

\* try_for_each over the goals from index i on: stops at the first goal the
\* store does not contain.  `examined` counts the goals whose membership was
\* asked of the store.
RECURSIVE PrecheckFrom(_, _, _)
PrecheckFrom(s, goals, i) ==
    IF i > Len(goals)
    THEN [tag |-> "Ok", val |-> 0, examined |-> Len(goals)]
    ELSE IF StoreContains(s, goals[i])
         THEN PrecheckFrom(s, goals, i + 1)
         ELSE [tag |-> "Dep", val |-> goals[i], examined |-> i]

\* A precheck that scans every goal and reports the last one missing.
SubtaskerPrecheckLast(s, goals) ==
    LET missing == {i \in DOMAIN goals : goals[i] \notin DOMAIN s}
    IN  IF missing = {}
        THEN [tag |-> "Ok", val |-> 0, examined |-> Len(goals)]
        ELSE [tag |-> "Dep",
              val |-> goals[CHOOSE i \in missing : \A j \in missing : j <= i],
              examined |-> Len(goals)]

SubtaskerPrecheck(s, goals) == PrecheckFrom(s, goals, 1)

\* ------------------------------------------------------- task strategies
\* What Task::solve returns: Ok(solution), or a TaskInterrupt.
OutOk(sol) == [kind |-> "Ok", arg |-> sol]
OutDependency(key) == [kind |-> "Dependency", arg |-> key]
OutError(err) == [kind |-> "Error", arg |-> err]
OutTail(goal) == [kind |-> "Tail", arg |-> goal]

\* One return of Task::solve: the outcome and the state it leaves in
\* *state (the &mut Option<State> argument).
Ret(out, st) == [out |-> out, state |-> st]

\* A strategy free to return anything the interface allows.  A Dependency
\* value can only be obtained from the accessor, so only for a missing goal.
AnySolve(t, goal, s, state) ==
    {Ret(OutOk(v), state) : v \in Sols}
    \cup {Ret(OutError(e), state) : e \in Errs}
    \cup {Ret(OutDependency(SubtaskerSolve(s, k).val), w) :
            k \in {x \in t.goals : SubtaskerSolve(s, x).tag = "Dep"},
            w \in {state} \cup {Some(v) : v \in StateVals(goal)}}
    \cup (IF t.tail THEN {Ret(OutTail(k), state) : k \in t.goals} ELSE {})

\* The subgoals a graph strategy asks for on behalf of `goal`.
PlanOf(t, goal) ==
    IF t.twist.kind = "Dependency" /\ t.twist.goal = goal
    THEN Append(t.deps[goal], t.twist.arg)
    ELSE t.deps[goal]

\* Sequential subtasker.solve(..)? calls over the plan from index i on,
\* adding the solutions up: the first missing subgoal interrupts.
RECURSIVE SolveAll(_, _, _, _)
SolveAll(s, plan, i, acc) ==
    IF i > Len(plan)
    THEN ResOk(acc)
    ELSE LET r == SubtaskerSolve(s, plan[i])
         IN  IF r.tag = "Ok" THEN SolveAll(s, plan, i + 1, acc + r.val) ELSE r

\* A deterministic strategy shaped like day11's DynamicSolution::solve: the
\* decomposition is computed on the first call and (when the strategy is
\* stateful) kept in the resumable state; a goal with nothing to request
\* yields its leaf value; otherwise the subgoals' solutions are summed.
\* The twist makes one goal end with an error or a tail redirect instead.
GraphSolve(t, goal, s, state) ==
    LET st == IF state # None THEN state
              ELSE IF t.stateful THEN Some(PlanOf(t, goal)) ELSE None
        plan == IF st # None THEN st[1] ELSE PlanOf(t, goal)
        r == SolveAll(s, plan, 1, 0)
    IN  IF r.tag = "Dep" THEN {Ret(OutDependency(r.val), st)}
        ELSE IF t.twist.kind = "Error" /\ t.twist.goal = goal
             THEN {Ret(OutError(t.twist.arg), st)}
        ELSE IF t.twist.kind = "Tail" /\ t.twist.goal = goal
             THEN {Ret(OutTail(t.twist.arg), st)}
        ELSE IF plan = <<>> THEN {Ret(OutOk(t.leaf[goal]), st)}
        ELSE {Ret(OutOk(r.val), st)}

\* The Fibonacci strategy, a stateless task: goals 0 and 1 are their own
\* solution; goal n >= 2 asks the accessor for n - 1, then for n - 2, and
\* returns their sum.
FibSolve(t, goal, s, state) ==
    IF goal < 2 THEN {Ret(OutOk(goal), state)}
    ELSE LET first == SubtaskerSolve(s, goal - 1)
             second == SubtaskerSolve(s, goal - 2)
         IN  IF first.tag = "Dep" THEN {Ret(OutDependency(first.val), state)}
             ELSE IF second.tag = "Dep" THEN {Ret(OutDependency(second.val), state)}
             ELSE {Ret(OutOk(first.val + second.val), state)}

\* day7's count_digits: 1 for 0, ilog10 + 1 otherwise.
RECURSIVE DigitsOf(_)
DigitsOf(value) == IF value < 10 THEN 1 ELSE 1 + DigitsOf(value \div 10)

count_digits(value) == IF value = 0 THEN 1 ELSE DigitsOf(value)

\* 10u32.pow(n)
RECURSIVE Pow10(_)
Pow10(n) == IF n = 0 THEN 1 ELSE 10 * Pow10(n - 1)

\* MaybePair: One(v) is <<v>>, Pair([l, r]) is <<l, r>>.
One(value) == <<value>>
Pair(left, right) == <<left, right>>

\* A split that cuts a value with an even digit count one digit off centre.
splitOffCentre(value) ==
    IF value = 0 THEN One(1)
    ELSE IF count_digits(value) % 2 = 0
         THEN Pair(value \div Pow10((count_digits(value) \div 2) - 1),
                   value % Pow10((count_digits(value) \div 2) - 1))
         ELSE One(value * 2024)

split(value) ==
    IF value = 0 THEN One(1)
    ELSE LET digits == count_digits(value)
         IN  IF digits % 2 = 0
             THEN LET power == Pow10(digits \div 2)
                  IN  Pair(value \div power, value % power)
             ELSE One(value * 2024)

Goal(value, depth) == [value |-> value, depth |-> depth]

\* day11's DynamicSolution::solve: a resumed goal reuses the pair kept in
\* its state; a fresh goal at depth 0 counts 1; any other fresh goal splits
\* its value into the state; then the subgoals at depth - 1 are asked of
\* the accessor in order and their counts added.
Day11Solve(t, goal, s, state) ==
    IF state = None /\ goal.depth = 0 THEN {Ret(OutOk(1), state)}
    ELSE LET st == IF state # None THEN state ELSE Some(split(goal.value))
             pair == st[1]
             plan == [i \in DOMAIN pair |-> Goal(pair[i], goal.depth - 1)]
             r == SolveAll(s, plan, 1, 0)
         IN  IF r.tag = "Dep" THEN {Ret(OutDependency(r.val), st)}
             ELSE {Ret(OutOk(r.val), st)}

TaskSolve(t, goal, s, state) ==
    IF t.kind = "any" THEN AnySolve(t, goal, s, state)
    ELSE IF t.kind = "graph" THEN GraphSolve(t, goal, s, state)
    ELSE IF t.kind = "fib" THEN FibSolve(t, goal, s, state)
    ELSE IF t.kind = "day11" THEN Day11Solve(t, goal, s, state)
    ELSE {}

\* ----------------------------------------------------------------- state
VARIABLES
    task,              \* the strategy handed to execute
    root,              \* execute's goal argument
    store,             \* subtasker.store
    dependency_stack,  \* Seq of [goal, state]
    current_goal,
    current_state,
    result,            \* Running until the loop breaks
    last,              \* the most recent call of task.solve: for which goal, what it returned
    calls,             \* how often task.solve has been called (counted up to CountCap)
    overwrote,         \* store.add has returned Some(old) during this run
    written,           \* per goal in flight, the state its strategy last left in *state
    fresh,             \* graph strategies count their calls with empty state, per goal
    started,           \* graph strategies: how often a goal was switched to with a fresh state
    parity,            \* graph strategies: the parity of the number of their calls
    pushed,            \* dependency_stack.push has been called during this run
    awaits,            \* per suspended goal, the subgoal it requested and waits for
    store0,            \* the store as it was handed to execute
    call               \* the most recent direct accessor call

vars == <<task, root, store, dependency_stack, current_goal, current_state,
          result, last, calls, overwrote, written, fresh, started, parity, pushed,
          awaits, store0, call>>

Running == [kind |-> "Running", arg |-> 0]
NoCall == [op |-> "none", goals |-> <<>>, arg |-> 0, before |-> EmptyStore,
           res |-> [tag |-> "Ok", val |-> 0, examined |-> 0]]
NoLast == [goal |-> 0, out |-> [kind |-> "None", arg |-> 0]]

Bump(c) == IF c < CountCap THEN c + 1 ELSE CountCap

\* --------------------------------------------------------- the driver loop
Frame(goal, state) == [goal |-> goal, state |-> state]

\* A cycle check that never finds the goal.
OnStackNever(stack, g) == FALSE

\* dependency_stack.iter().any(|(goal, ..)| *goal == g)
OnStack(stack, g) == \E i \in 1..Len(stack) : stack[i].goal = g

\* A push that suspends the goal with a default state.
PushFrameNoState(stack, goal, state) == Append(stack, [goal |-> goal, state |-> <<>>])

PushFrame(stack, goal, state) == Append(stack, Frame(goal, state))

\* A pop that takes the oldest frame's contents (first in, first out).
PopFrameBottom(stack) == stack[1]

\* dependency_stack.pop(): the frame removed and the stack left.
PopFrame(stack) == stack[Len(stack)]
\* A pop that reads the top frame and leaves it on the stack.
PopRestKeep(stack) == stack

PopRest(stack) == SubSeq(stack, 1, Len(stack) - 1)

\* The goal a Dependency interrupt makes current.
SubgoalOf(out) == out.arg

\* The goal a Tail interrupt makes current.
TailGoalOf(out) == out.arg

\* The pending subgoal requests are recorded for every strategy but the free
\* one that returns tail redirects, whose runs are followed on the driver's
\* own state.
Traced(t) == ~(t.kind = "any" /\ t.tail)

\* The instrumentation: a graph strategy counts its own calls with an empty
\* state, and the switches to a goal with a fresh state are counted for it.
Observe(r, switched) ==
    /\ last' = [goal |-> current_goal, out |-> r.out]
    /\ calls' = Bump(calls)
    /\ fresh' = IF task.kind = "graph" /\ current_state = None
                THEN [fresh EXCEPT ![current_goal] = Bump(@)]
                ELSE fresh
    /\ started' = IF task.kind = "graph" /\ switched # 0
                  THEN [started EXCEPT ![switched] = Bump(@)]
                  ELSE started
    /\ parity' = IF task.kind = "graph" THEN 1 - parity ELSE parity

\* A return that hands back a default solution in place of the strategy's.
DoneReturnDefault(r) ==
    /\ r.out.kind = "Ok"
    /\ dependency_stack = <<>>
    /\ result' = [kind |-> "Ok", arg |-> 0]
    /\ Observe(r, 0)
    /\ UNCHANGED <<store, dependency_stack, current_goal, current_state,
                   overwrote, written, pushed, awaits>>

\* A return that also commits the returned solution under the current goal.
DoneReturnCommits(r) ==
    /\ r.out.kind = "Ok"
    /\ dependency_stack = <<>>
    /\ result' = [kind |-> "Ok", arg |-> r.out.arg]
    /\ store' = StoreAdd(store, current_goal, r.out.arg)
    /\ Observe(r, 0)
    /\ UNCHANGED <<dependency_stack, current_goal, current_state,
                   overwrote, written, pushed, awaits>>

\* Ok(solution) with an empty dependency stack: break Ok(solution).
DoneReturn(r) ==
    /\ r.out.kind = "Ok"
    /\ dependency_stack = <<>>
    /\ result' = [kind |-> "Ok", arg |-> r.out.arg]
    /\ Observe(r, 0)
    /\ UNCHANGED <<store, dependency_stack, current_goal, current_state,
                   overwrote, written, pushed, awaits>>

\* A commit made after the switch to the dependent goal: the solution goes
\* under the dependent's key.
DoneCommitAfterSwitch(r) ==
    /\ r.out.kind = "Ok"
    /\ dependency_stack # <<>>
    /\ dependency_stack' = PopRest(dependency_stack)
    /\ store' = StoreAdd(store, PopFrame(dependency_stack).goal, r.out.arg)
    /\ overwrote' = (overwrote \/ StoreAddOld(store, PopFrame(dependency_stack).goal) # None)
    /\ current_goal' = PopFrame(dependency_stack).goal
    /\ current_state' = PopFrame(dependency_stack).state
    /\ written' = [written EXCEPT ![current_goal] = None]
    /\ Observe(r, 0)
    /\ awaits' = IF Traced(task)
                 THEN [awaits EXCEPT ![PopFrame(dependency_stack).goal] = None]
                 ELSE awaits
    /\ UNCHANGED <<result, pushed>>

\* Ok(solution) with a suspended dependent: commit, pop, resume.
DoneCommit(r) ==
    /\ r.out.kind = "Ok"
    /\ dependency_stack # <<>>
    /\ dependency_stack' = PopRest(dependency_stack)
    /\ store' = StoreAdd(store, current_goal, r.out.arg)
    /\ overwrote' = (overwrote \/ StoreAddOld(store, current_goal) # None)
    /\ current_goal' = PopFrame(dependency_stack).goal
    /\ current_state' = PopFrame(dependency_stack).state
    /\ written' = [written EXCEPT ![current_goal] = None]
    /\ Observe(r, 0)
    /\ awaits' = IF Traced(task)
                 THEN [awaits EXCEPT ![PopFrame(dependency_stack).goal] = None]
                 ELSE awaits
    /\ UNCHANGED <<result, pushed>>

\* An error arm that rolls the store back to empty before breaking.
ErrorArmRollback(r) ==
    /\ r.out.kind = "Error"
    /\ result' = [kind |-> "Error", arg |-> r.out.arg]
    /\ store' = EmptyStore
    /\ Observe(r, 0)
    /\ UNCHANGED <<dependency_stack, current_goal, current_state,
                   overwrote, written, pushed, awaits>>

\* Err(TaskInterrupt::Error(err)): break Err(DynamicError::Error(err)).
ErrorArm(r) ==
    /\ r.out.kind = "Error"
    /\ result' = [kind |-> "Error", arg |-> r.out.arg]
    /\ Observe(r, 0)
    /\ UNCHANGED <<store, dependency_stack, current_goal, current_state,
                   overwrote, written, pushed, awaits>>

\* A dependency arm that looks for the cycle before it pushes the frame.
DependencyArmCheckFirst(r) ==
    /\ r.out.kind = "Dependency"
    /\ dependency_stack' = PushFrame(dependency_stack, current_goal, r.state)
    /\ pushed' = TRUE
    /\ awaits' = IF Traced(task)
                 THEN [awaits EXCEPT ![current_goal] = Some(SubgoalOf(r.out))]
                 ELSE awaits
    /\ \/ /\ OnStack(dependency_stack, SubgoalOf(r.out))
          /\ result' = [kind |-> "CircularDependency", arg |-> SubgoalOf(r.out)]
          /\ written' = [written EXCEPT ![current_goal] = r.state]
          /\ Observe(r, 0)
          /\ UNCHANGED <<current_goal, current_state>>
       \/ /\ ~OnStack(dependency_stack, SubgoalOf(r.out))
          /\ current_goal' = SubgoalOf(r.out)
          /\ current_state' = None
          /\ written' = [written EXCEPT ![current_goal] = r.state,
                                        ![SubgoalOf(r.out)] = None]
          /\ Observe(r, SubgoalOf(r.out))
          /\ UNCHANGED result
    /\ UNCHANGED <<store, overwrote>>

\* Err(TaskInterrupt::Dependency(subgoal)): push the current frame, then
\* either report the cycle or switch to the subgoal with a default state.
DependencyArm(r) ==
    /\ r.out.kind = "Dependency"
    /\ dependency_stack' = PushFrame(dependency_stack, current_goal, r.state)
    /\ pushed' = TRUE
    /\ awaits' = IF Traced(task)
                 THEN [awaits EXCEPT ![current_goal] = Some(SubgoalOf(r.out))]
                 ELSE awaits
    /\ \/ /\ OnStack(dependency_stack', SubgoalOf(r.out))
          /\ result' = [kind |-> "CircularDependency", arg |-> SubgoalOf(r.out)]
          /\ written' = [written EXCEPT ![current_goal] = r.state]
          /\ Observe(r, 0)
          /\ UNCHANGED <<current_goal, current_state>>
       \/ /\ ~OnStack(dependency_stack', SubgoalOf(r.out))
          /\ current_goal' = SubgoalOf(r.out)
          /\ current_state' = None
          /\ written' = [written EXCEPT ![current_goal] = r.state,
                                        ![SubgoalOf(r.out)] = None]
          /\ Observe(r, SubgoalOf(r.out))
          /\ UNCHANGED result
    /\ UNCHANGED <<store, overwrote>>

\* A tail arm whose fault names the redirecting goal, not the tail goal.
TailArmNamesCurrent(r) ==
    /\ r.out.kind = "Tail"
    /\ \/ /\ OnStack(dependency_stack, TailGoalOf(r.out))
          /\ result' = [kind |-> "CircularDependency", arg |-> current_goal]
          /\ Observe(r, 0)
          /\ UNCHANGED <<current_goal, current_state, written>>
       \/ /\ ~OnStack(dependency_stack, TailGoalOf(r.out))
          /\ current_goal' = TailGoalOf(r.out)
          /\ current_state' = None
          /\ written' = [g \in DOMAIN written |->
                           IF g \in {current_goal, TailGoalOf(r.out)}
                           THEN None ELSE written[g]]
          /\ Observe(r, TailGoalOf(r.out))
          /\ UNCHANGED result
    /\ UNCHANGED <<store, dependency_stack, overwrote, pushed, awaits>>

\* A tail arm that suspends the redirecting goal as a subgoal request does.
TailArmPushes(r) ==
    /\ r.out.kind = "Tail"
    /\ \/ /\ OnStack(dependency_stack, TailGoalOf(r.out))
          /\ result' = [kind |-> "CircularDependency", arg |-> TailGoalOf(r.out)]
          /\ Observe(r, 0)
          /\ UNCHANGED <<current_goal, current_state, written, dependency_stack>>
       \/ /\ ~OnStack(dependency_stack, TailGoalOf(r.out))
          /\ dependency_stack' = PushFrame(dependency_stack, current_goal, r.state)
          /\ current_goal' = TailGoalOf(r.out)
          /\ current_state' = None
          /\ written' = [g \in DOMAIN written |->
                           IF g \in {current_goal, TailGoalOf(r.out)}
                           THEN None ELSE written[g]]
          /\ Observe(r, TailGoalOf(r.out))
          /\ UNCHANGED result
    /\ UNCHANGED <<store, overwrote, pushed, awaits>>

\* Err(TaskInterrupt::Tail(tail_goal)): no push; the cycle check looks at
\* the suspended frames only.
TailArm(r) ==
    /\ r.out.kind = "Tail"
    /\ \/ /\ OnStack(dependency_stack, TailGoalOf(r.out))
          /\ result' = [kind |-> "CircularDependency", arg |-> TailGoalOf(r.out)]
          /\ Observe(r, 0)
          /\ UNCHANGED <<current_goal, current_state, written>>
       \/ /\ ~OnStack(dependency_stack, TailGoalOf(r.out))
          /\ current_goal' = TailGoalOf(r.out)
          /\ current_state' = None
          /\ written' = [g \in DOMAIN written |->
                           IF g \in {current_goal, TailGoalOf(r.out)}
                           THEN None ELSE written[g]]
          /\ Observe(r, TailGoalOf(r.out))
          /\ UNCHANGED result
    /\ UNCHANGED <<store, dependency_stack, overwrote, pushed, awaits>>

\* One iteration of execute's loop: call task.solve, match on what it returns.
Invoke == TaskSolve(task, current_goal, store, current_state)

IterDoneReturn ==
    /\ result = Running
    /\ \E r \in Invoke : DoneReturn(r)
    /\ UNCHANGED <<task, root, call, store0>>

IterDoneCommit ==
    /\ result = Running
    /\ \E r \in Invoke : DoneCommit(r)
    /\ UNCHANGED <<task, root, call, store0>>

IterError ==
    /\ result = Running
    /\ \E r \in Invoke : ErrorArm(r)
    /\ UNCHANGED <<task, root, call, store0>>

IterDependency ==
    /\ result = Running
    /\ \E r \in Invoke : DependencyArm(r)
    /\ UNCHANGED <<task, root, call, store0>>

IterTail ==
    /\ result = Running
    /\ \E r \in Invoke : TailArm(r)
    /\ UNCHANGED <<task, root, call, store0>>

\* ------------------------------------------------- direct accessor calls
CallSolve ==
    /\ \E g \in Goals :
          call' = [op |-> "solve", goals |-> <<g>>, arg |-> 0, before |-> store,
                   res |-> [tag |-> SubtaskerSolve(store, g).tag,
                            val |-> SubtaskerSolve(store, g).val,
                            examined |-> 1]]
    /\ UNCHANGED <<task, root, store, dependency_stack, current_goal,
                   current_state, result, last, calls, overwrote, written,
                   fresh, started, parity, pushed, awaits, store0>>

CallPrecheck ==
    /\ \E n \in 0..MaxLen : \E goals \in [1..n -> Goals] :
          call' = [op |-> "precheck", goals |-> goals, arg |-> 0, before |-> store,
                   res |-> SubtaskerPrecheck(store, goals)]
    /\ UNCHANGED <<task, root, store, dependency_stack, current_goal,
                   current_state, result, last, calls, overwrote, written,
                   fresh, started, parity, pushed, awaits, store0>>

\* --------------------------------------------------- direct store calls
\* An Option<V> result in the shape of an accessor result.
OptionRes(o) ==
    [tag |-> IF o # None THEN "Some" ELSE "None",
     val |-> IF o # None THEN o[1] ELSE 0,
     examined |-> 1]

CallAdd ==
    /\ \E g \in Goals : \E v \in Sols :
          /\ store' = StoreAdd(store, g, v)
          /\ call' = [op |-> "add", goals |-> <<g>>, arg |-> v, before |-> store,
                      res |-> OptionRes(StoreAddOld(store, g))]
    /\ UNCHANGED <<task, root, dependency_stack, current_goal,
                   current_state, result, last, calls, overwrote, written,
                   fresh, started, parity, pushed, awaits, store0>>

CallGet ==
    /\ \E g \in Goals :
          call' = [op |-> "get", goals |-> <<g>>, arg |-> 0, before |-> store,
                   res |-> OptionRes(StoreGet(store, g))]
    /\ UNCHANGED <<task, root, store, dependency_stack, current_goal,
                   current_state, result, last, calls, overwrote, written,
                   fresh, started, parity, pushed, awaits, store0>>

CallContains ==
    /\ \E g \in Goals :
          call' = [op |-> "contains", goals |-> <<g>>, arg |-> 0, before |-> store,
                   res |-> [tag |-> IF StoreContains(store, g) THEN "true" ELSE "false",
                            val |-> 0, examined |-> 1]]
    /\ UNCHANGED <<task, root, store, dependency_stack, current_goal,
                   current_state, result, last, calls, overwrote, written,
                   fresh, started, parity, pushed, awaits, store0>>

\* ------------------------------------------------------ sequential runs
\* day11's solve: once a call of execute has returned, execute is called for
\* the next value with the same strategy and the same store (&mut store).
ExecuteAgain ==
    /\ result # Running
    /\ \E goal \in task.goals :
          /\ root' = goal
          /\ current_goal' = goal
    /\ store0' = store
    /\ dependency_stack' = <<>>
    /\ current_state' = None
    /\ result' = Running
    /\ last' = NoLast
    /\ calls' = 0
    /\ overwrote' = FALSE
    /\ pushed' = FALSE
    /\ written' = [g \in task.goals |-> None]
    /\ awaits' = [g \in task.goals |-> None]
    /\ UNCHANGED <<task, store, fresh, started, parity, call>>

\* --------------------------------------------------------- initial states
\* execute(goal, task, store): the locals set up before the loop.
Execute(t, goal, s) ==
    /\ task = t
    /\ root = goal
    /\ store = s
    /\ dependency_stack = <<>>
    /\ current_goal = goal
    /\ current_state = None
    /\ result = Running
    /\ last = NoLast
    /\ calls = 0
    /\ overwrote = FALSE
    /\ written = [g \in t.goals |-> None]
    /\ fresh = [g \in Goals |-> 0]
    /\ started = [g \in Goals |-> IF t.kind = "graph" /\ g = goal THEN 1 ELSE 0]
    /\ parity = 0
    /\ pushed = FALSE
    /\ awaits = [g \in t.goals |-> None]
    /\ store0 = s
    /\ call = NoCall

NoTwist == [kind |-> "None", goal |-> 0, arg |-> 0]

\* Strategies free in what they return, with and without tail redirects.
AnyTasks ==
    {[kind |-> "any", goals |-> Goals, tail |-> b] : b \in BOOLEAN}

\* Sequences without repetition over S.
SeqsNoRep(S) ==
    {q \in UNION {[1..k -> S] : k \in 0..Cardinality(S)} :
        \A i, j \in DOMAIN q : i # j => q[i] # q[j]}

\* One goal made to end with an error, to end with a tail redirect, or to
\* request one more subgoal (any goal: this is what closes a cycle).
Twists ==
    {NoTwist}
    \cup {[kind |-> "Error", goal |-> g, arg |-> e] : g \in Goals, e \in {1}}
    \cup {[kind |-> "Tail", goal |-> g, arg |-> k] : g \in Goals, k \in Goals}
    \cup {[kind |-> "Dependency", goal |-> g, arg |-> k] : g \in Goals, k \in Goals}

\* The decompositions of goals 1..k: goal g decomposes into goals below it
\* (as day11's depth - 1 and Fibonacci's n - 1, n - 2 do), in any order.
RECURSIVE Decompositions(_)
Decompositions(k) ==
    IF k = 0 THEN {<<>>}
    ELSE {Append(d, q) : d \in Decompositions(k - 1), q \in SeqsNoRep(1..(k - 1))}

\* Graph strategies: a decomposition, a leaf's solution being its own
\* value, with or without resumable state, and one twist.
GraphTasks ==
    {[kind |-> "graph", goals |-> Goals, deps |-> d, leaf |-> [g \in Goals |-> g],
      stateful |-> b, twist |-> w] :
        d \in Decompositions(NumGoals), b \in BOOLEAN, w \in Twists}

AllStores == UNION {[D -> Sols] : D \in SUBSET Goals}

InitAny == \E t \in AnyTasks : Execute(t, 1, EmptyStore)

\* A strategy that returns only Done, NeedsSubgoal and Fails.
InitNoTail ==
    Execute([kind |-> "any", goals |-> Goals, tail |-> FALSE], 1, EmptyStore)

InitGraph == \E t \in GraphTasks : Execute(t, NumGoals, EmptyStore)

\* execute(n) with the Fibonacci strategy, from an empty store.
InitFib ==
    \E n \in 0..FibMax :
        Execute([kind |-> "fib", goals |-> 0..FibMax], n, EmptyStore)

\* The goals a day11 run can touch: the goal's subgoals at depth - 1, and
\* theirs.
RECURSIVE Day11Goals(_)
Day11Goals(S) ==
    LET sub(g) == IF g.depth = 0 THEN {}
                  ELSE {Goal(split(g.value)[i], g.depth - 1) :
                            i \in DOMAIN split(g.value)}
        N == S \cup UNION {sub(g) : g \in S}
    IN  IF N = S THEN S ELSE Day11Goals(N)

\* execute(Goal { value: 125, depth }, &DynamicSolution, store) with an
\* empty store.
InitDay11 ==
    \E d \in 1..MaxDepth :
        Execute([kind |-> "day11", goals |-> Day11Goals({Goal(125, d)})],
                Goal(125, d), EmptyStore)

InitAccessor == \E s \in AllStores : Execute([kind |-> "accessor", goals |-> Goals], 1, s)

Next ==
    \/ IterDoneReturn
    \/ IterDoneCommit
    \/ IterError
    \/ IterDependency
    \/ IterTail

\* The loop for a strategy that never returns a Tail interrupt: that arm of
\* the match is never taken.
NextNoTail ==
    \/ IterDoneReturn
    \/ IterDoneCommit
    \/ IterError
    \/ IterDependency

\* The loop for a strategy whose error type is Infallible and that returns
\* no Tail interrupt.
NextScenario ==
    \/ IterDoneReturn
    \/ IterDoneCommit
    \/ IterDependency

\* A strategy without tail redirects run for one goal after another.
NextShared == NextNoTail \/ ExecuteAgain

NextAccessor == CallSolve \/ CallPrecheck

NextStore == CallAdd \/ CallGet \/ CallContains

\* Runs of execute with a strategy free in what it returns.
Spec == InitAny /\ [][Next]_vars

\* Runs of execute with the deterministic graph strategies.
SpecGraph == InitGraph /\ [][Next]_vars

\* The loop never pauses: an iteration that can be taken is taken.
FairSpecNoTail == InitNoTail /\ [][NextNoTail]_vars /\ WF_vars(NextNoTail)
FairSpecGraph == SpecGraph /\ WF_vars(Next)

\* Sequential runs sharing one store, the first from an empty one.
SpecShared == InitNoTail /\ [][NextShared]_vars

\* Runs of execute with the Fibonacci strategy and with day11's strategy.
SpecFib == InitFib /\ [][NextScenario]_vars
SpecDay11 == InitDay11 /\ [][NextScenario]_vars

\* Direct calls of the accessor on every store.
SpecAccessor == InitAccessor /\ [][NextAccessor]_vars

\* Direct calls of the store's add, get and contains, from every store.
SpecStore == InitAccessor /\ [][NextStore]_vars
\* ================================================================ properties
\* What the properties read off a state, written without the driver's own
\* operators.
Terminated == result.kind # "Running"

StackGoals == {dependency_stack[i].goal : i \in DOMAIN dependency_stack}

StackGoalSeq == [i \in DOMAIN dependency_stack |-> dependency_stack[i].goal]

Stored == DOMAIN store

\* The goal graph of a graph strategy: the subgoals a goal requests, and the
\* goal it tail-redirects to.
Requests(t, g) ==
    {t.deps[g][i] : i \in DOMAIN t.deps[g]}
    \cup (IF t.twist.kind = "Dependency" /\ t.twist.goal = g THEN {t.twist.arg} ELSE {})

Redirects(t, g) ==
    IF t.twist.kind = "Tail" /\ t.twist.goal = g THEN {t.twist.arg} ELSE {}

Successors(t, S) == UNION {Requests(t, g) \cup Redirects(t, g) : g \in S}

RECURSIVE Closure(_, _)
Closure(t, S) ==
    LET N == S \cup Successors(t, S)
    IN  IF N = S THEN S ELSE Closure(t, N)

\* The goals reachable from g, g included.
Reach(t, g) == Closure(t, {g})

Acyclic(t) == \A g \in t.goals : g \notin Closure(t, Successors(t, {g}))

\* The strategy returns only Done and NeedsSubgoal.
DoneNeedsOnly(t) == t.kind = "graph" /\ t.twist.kind \in {"None", "Dependency"}

\* The direct recursive evaluation of a goal over an acyclic goal graph.
RECURSIVE Sum(_, _)
RECURSIVE Reference(_, _)
Sum(f, S) == IF S = {} THEN 0 ELSE LET x == CHOOSE y \in S : TRUE IN f[x] + Sum(f, S \ {x})

Reference(t, g) ==
    LET plan == t.deps[g] \o (IF t.twist.kind = "Dependency" /\ t.twist.goal = g
                              THEN <<t.twist.arg>> ELSE <<>>)
        subs == [i \in DOMAIN plan |-> Reference(t, plan[i])]
    IN  IF Redirects(t, g) # {} THEN Reference(t, t.twist.arg)
        ELSE IF plan = <<>> THEN t.leaf[g]
        ELSE Sum(subs, DOMAIN subs)

C2_SubgoalCycleDetected ==
    (last.out.kind = "Dependency" /\ last.out.arg \in StackGoals) =>
        result = [kind |-> "CircularDependency", arg |-> last.out.arg]

\* Goal 1 requested goal 2, goal 2 requested goal 1: the fault names goal 1.
C2_Witness ==
    /\ StackGoalSeq = <<1, 2>>
    /\ last = [goal |-> 2, out |-> [kind |-> "Dependency", arg |-> 1]]
    /\ result = [kind |-> "CircularDependency", arg |-> 1]

C4_TerminalShape ==
    Terminated =>
        \/ result.kind = "Ok" /\ result.arg \in Sols
        \/ result.kind = "Error" /\ result.arg \in Errs
        \/ result.kind = "CircularDependency" /\ result.arg \in Goals

C4_Terminates == []C4_TerminalShape /\ <>Terminated

\* A run without tail redirects has gone through commits and ended in a
\* detected cycle.
C4_Witness ==
    /\ task.kind = "any" /\ ~task.tail
    /\ result.kind = "CircularDependency"
    /\ Stored # {}
    /\ Len(dependency_stack) = 2

\* ------------------------------------------------------------------- C5
\* The graph strategy's goals reachable from the root hold a cycle of
\* subgoal requests and tail redirects.
CycleFromRoot(t, g) ==
    \E x \in Reach(t, g) : x \in Closure(t, Successors(t, {x}))

\* C5: whenever the goals requested in a run form a cycle (of subgoal
\* requests, of tail redirects, or mixed), the run ends with
\* CircularDependency.
C5_EveryCycleDetected ==
    (task.kind = "graph" /\ task.twist.kind # "Error" /\ CycleFromRoot(task, root))
        => <>(result.kind = "CircularDependency")

\* ------------------------------------------------------------------- C6
\* C6: the driver never calls store.add for a goal that is already in the
\* store.
C6_NeverAddsStoredGoal == overwrote = FALSE

\* ------------------------------------------------------------------- C7
\* C7: no goal that is current in a running loop, or suspended on the
\* dependency stack, is in the store.
C7_InFlightNotStored ==
    /\ \A g \in StackGoals : g \notin Stored
    /\ ~Terminated => current_goal \notin Stored

\* ------------------------------------------------------------------- C8
\* C8: every suspended frame holds exactly the state its strategy left when
\* it returned NeedsSubgoal, the goal the strategy is about to be called for
\* is given exactly the state it last left (empty on its first visit), and
\* a state is only ever held for, and given to, the goal that wrote it.
C8_StateContinuity ==
    /\ \A i \in DOMAIN dependency_stack :
          /\ dependency_stack[i].state = written[dependency_stack[i].goal]
          /\ dependency_stack[i].state # None =>
                dependency_stack[i].state[1][1] = dependency_stack[i].goal
    /\ (task.kind = "any" /\ ~Terminated) =>
          /\ current_state = written[current_goal]
          /\ current_state # None => current_state[1][1] = current_goal

\* Goal 1 wrote a state and requested goal 2, which is now solved: goal 1 is
\* about to be resumed with what it wrote.
C8_Witness ==
    /\ task.kind = "any" /\ ~Terminated
    /\ current_goal = 1 /\ current_state = Some(<<1, 2>>)
    /\ last = [goal |-> 2, out |-> [kind |-> "Ok", arg |-> 1]]
    /\ 2 \in Stored

\* ------------------------------------------------------------------- C9
\* The indices of the goals of a sequence that a store lacks.
Misses(s, goals) == {i \in DOMAIN goals : goals[i] \notin DOMAIN s}

FirstMiss(s, goals) == CHOOSE i \in Misses(s, goals) : \A j \in Misses(s, goals) : i <= j

\* C9: precheck(goals) is Ok when the store holds every goal; otherwise it
\* is a dependency request for the first goal, in sequence order, that the
\* store lacks, no goal after that one is examined, and the store is as it
\* was.
C9_PrecheckFailFast ==
    call.op = "precheck" =>
        /\ store = call.before
        /\ Misses(store, call.goals) = {} =>
              call.res.tag = "Ok" /\ call.res.examined = Len(call.goals)
        /\ Misses(store, call.goals) # {} =>
              /\ call.res.tag = "Dep"
              /\ call.res.val = call.goals[FirstMiss(store, call.goals)]
              /\ call.res.examined = FirstMiss(store, call.goals)

\* precheck(<<g1, g2, g3>>) with g2 and g3 unsolved requested g2 and did not
\* look at g3.
C9_Witness ==
    /\ call.op = "precheck" /\ call.goals = <<1, 2, 3>>
    /\ Stored = {1}
    /\ call.res.tag = "Dep" /\ call.res.val = 2 /\ call.res.examined = 2

\* ------------------------------------------------------------------ C10
\* C10: the accessor's solve(g) is the stored solution of g when the store
\* holds g, otherwise a suspension signal carrying g; the store is as it was.
C10_AccessorSolve ==
    call.op = "solve" =>
        /\ store = call.before
        /\ call.goals[1] \in DOMAIN store =>
              call.res.tag = "Ok" /\ call.res.val = store[call.goals[1]]
        /\ call.goals[1] \notin DOMAIN store =>
              call.res.tag = "Dep" /\ call.res.val = call.goals[1]

\* solve found a stored solution of one goal while another goal is stored too.
C10_Witness ==
    /\ call.op = "solve" /\ call.goals = <<2>>
    /\ Stored = {1, 2} /\ store[1] = 0 /\ store[2] = 1
    /\ call.res.tag = "Ok" /\ call.res.val = 1

\* ------------------------------------------------------------------ C11
\* The Fibonacci numbers, by their recurrence.
RECURSIVE Fib(_)
Fib(n) == IF n < 2 THEN n ELSE Fib(n - 1) + Fib(n - 2)

\* C11: with the Fibonacci strategy and an empty store, execute(10) returns
\* 55 when it ends (and every execute(n) returns the n-th Fibonacci number);
\* execute(0) and execute(1) have returned their own value once the strategy
\* has been invoked at all: after that one invocation, whose outcome was no
\* subgoal request, and with no push on the dependency stack.
C11_Fibonacci ==
    /\ (root = 10 /\ Terminated) => result = [kind |-> "Ok", arg |-> 55]
    /\ Terminated => result = [kind |-> "Ok", arg |-> Fib(root)]
    /\ (root \in {0, 1} /\ calls > 0) =>
          /\ result = [kind |-> "Ok", arg |-> root]
          /\ calls = 1
          /\ last = [goal |-> root, out |-> [kind |-> "Ok", arg |-> root]]
          /\ ~pushed /\ dependency_stack = <<>>

\* execute(10) has returned 55, with the goals below 10 committed.
C11_Witness ==
    /\ task.kind = "fib" /\ root = 10
    /\ result = [kind |-> "Ok", arg |-> 55]
    /\ Stored = 0..9 /\ store[9] = 34 /\ pushed

\* ------------------------------------------------------------------ C12
\* The count of a value after `depth` steps, by direct recursion: depth 0
\* yields 1; 0 becomes 1; an even number of digits splits into the two
\* halves; anything else is multiplied by 2024.
RECURSIVE BruteDigits(_)
RECURSIVE BruteForce(_, _)
BruteDigits(v) == IF v < 10 THEN 1 ELSE 1 + BruteDigits(v \div 10)

BruteForce(value, depth) ==
    IF depth = 0 THEN 1
    ELSE IF value = 0 THEN BruteForce(1, depth - 1)
    ELSE IF BruteDigits(value) % 2 = 0
         THEN LET half == 10 ^ (BruteDigits(value) \div 2)
              IN  BruteForce(value \div half, depth - 1)
                  + BruteForce(value % half, depth - 1)
         ELSE BruteForce(value * 2024, depth - 1)

\* C12: with day11's strategy and an empty store, a run of execute on
\* {value: 125, depth: d} that ends has returned the brute-force count, for
\* every depth d from 1 up.
C12_MatchesBruteForce ==
    Terminated => result = [kind |-> "Ok", arg |-> BruteForce(root.value, root.depth)]

\* execute on {125, 6} has returned 7, the two halves of 253000 having been
\* committed at depth 4.
C12_Witness ==
    /\ task.kind = "day11" /\ root = [value |-> 125, depth |-> 6]
    /\ result = [kind |-> "Ok", arg |-> 7]
    /\ [value |-> 253, depth |-> 4] \in Stored
    /\ [value |-> 0, depth |-> 4] \in Stored

\* ------------------------------------------------------------------ C13
\* C13: when the first invocation of the strategy (it is for the root goal)
\* has returned Done(sol), the run has returned sol after exactly that one
\* invocation, and the dependency stack has never been pushed to.
C13_ImmediateDone ==
    (calls = 1 /\ last.out.kind = "Ok") =>
        /\ last.goal = root
        /\ result = [kind |-> "Ok", arg |-> last.out.arg]
        /\ ~pushed /\ dependency_stack = <<>>
        /\ Stored = {}

\* The strategy answered the root goal at once with solution 1.
C13_Witness ==
    /\ task.kind = "any"
    /\ calls = 1 /\ last = [goal |-> root, out |-> [kind |-> "Ok", arg |-> 1]]
    /\ result = [kind |-> "Ok", arg |-> 1]

\* ------------------------------------------------------------------ C14
\* C14: in every reachable state of the driver, whatever the strategy
\* returns (tail redirects included), no goal is on the dependency stack
\* more than once.
C14_StackNoDuplicates ==
    \A i, j \in DOMAIN dependency_stack :
        dependency_stack[i].goal = dependency_stack[j].goal => i = j

\* Two goals are suspended and the run goes on after a tail redirect.
C14_Witness ==
    /\ Len(dependency_stack) = 2 /\ ~Terminated
    /\ last.out.kind = "Tail"

\* ------------------------------------------------------------------ C15
\* C15: at every head of the loop (the run has not ended, the strategy is
\* about to be invoked), whatever the strategy has returned (tail redirects
\* included), the current goal is not on the dependency stack.
C15_CurrentNotOnStack ==
    ~Terminated => current_goal \notin StackGoals

\* A goal has been resumed after its subgoal was committed, while another
\* goal is still suspended below it.
C15_Witness ==
    /\ ~Terminated /\ Len(dependency_stack) = 1
    /\ last.out.kind = "Ok" /\ last.goal \in Stored
    /\ current_goal # root

\* ------------------------------------------------------------------ C16
\* C16: every invocation starts from a running loop (none follows a
\* result), and an invocation whose outcome is Fails(e), for any goal at
\* any stack depth, ends the run in that same step with Error(e), no
\* solution being returned, and leaves the store (every committed goal with
\* its solution) and the stack as they were.
C16_DomainError ==
    [][/\ result = Running
       /\ last'.out.kind = "Error" =>
             /\ result' = [kind |-> "Error", arg |-> last'.out.arg]
             /\ store' = store
             /\ dependency_stack' = dependency_stack]_vars

\* The strategy failed with error 2 at depth 1, after a goal was committed.
C16_Witness ==
    /\ result = [kind |-> "Error", arg |-> 2]
    /\ last.out = [kind |-> "Error", arg |-> 2]
    /\ Len(dependency_stack) = 1 /\ Stored # {}

\* ------------------------------------------------------------------ C17
\* C17: whenever the run has ended with CircularDependency(x), the most
\* recent outcome of the strategy is NeedsSubgoal(x) or TailRedirect(x) (the
\* fault belongs to that invocation, none came after it), and x is the goal
\* of a frame on the dependency stack.
C17_CycleNamesOffender ==
    result.kind = "CircularDependency" =>
        /\ last.out.kind \in {"Dependency", "Tail"}
        /\ last.out.arg = result.arg
        /\ \E i \in DOMAIN dependency_stack : dependency_stack[i].goal = result.arg

\* C17, the step: the fault is raised by an invocation of a running loop,
\* in the step of the outcome that names the goal, and nothing follows it.
C17_RaisedAtOnce ==
    [][/\ result = Running
       /\ result'.kind = "CircularDependency" =>
             /\ last'.goal = current_goal
             /\ last'.out.arg = result'.arg]_vars

\* C17: a run that ends with CircularDependency(x) does so in the step of
\* the strategy's outcome naming x, x is then the goal of a suspended frame,
\* and no invocation follows.
C17_CycleFault == []C17_CycleNamesOffender /\ C17_RaisedAtOnce

\* Goal 1 waits for goal 2, goal 2 for goal 3, and goal 3 redirected to
\* goal 1: the fault names goal 1, the bottom frame.
C17_Witness ==
    /\ StackGoalSeq = <<1, 2>>
    /\ last = [goal |-> 3, out |-> [kind |-> "Tail", arg |-> 1]]
    /\ result = [kind |-> "CircularDependency", arg |-> 1]

\* ------------------------------------------------------------------ C18
\* C18: when goal g tail-redirects to g' and g' then resolves to s, g's
\* result is s.  If g is the root, the run returns s.  If a waiting goal d
\* had requested g (and not g' itself), then when d is resumed after g'
\* resolved, the store holds s under g, so that the accessor's solve(g)
\* answers d with s.
C18_TailResult ==
    (task.kind = "graph" /\ task.twist.kind = "Tail") =>
        LET g == task.twist.goal
            tail_goal == task.twist.arg
        IN  /\ (root = g /\ result.kind = "Ok" /\ last.goal = tail_goal) =>
                  result.arg = last.out.arg
            /\ (/\ ~Terminated
                /\ last.goal = tail_goal /\ last.out.kind = "Ok"
                /\ g \in Requests(task, current_goal)
                /\ tail_goal \notin Requests(task, current_goal)) =>
                  g \in Stored /\ store[g] = last.out.arg

\* ------------------------------------------------------------------ C19
\* C19: add(g, s) returns the solution that was stored under g, or absent
\* if there was none; afterwards the store holds s under g (insert wins)
\* and every other key is as it was; get(g) returns the solution stored
\* under g or absent; contains(g) is true exactly when g has a solution, so
\* exactly when get(g) returns one; get and contains leave the store alone.
C19_StoreContract ==
    LET g == call.goals[1]
        b == call.before
    IN  /\ call.op = "add" =>
              /\ g \in DOMAIN b =>
                    call.res.tag = "Some" /\ call.res.val = b[g]
              /\ g \notin DOMAIN b => call.res.tag = "None"
              /\ DOMAIN store = DOMAIN b \cup {g}
              /\ store[g] = call.arg
              /\ \A k \in DOMAIN b \ {g} : store[k] = b[k]
        /\ call.op = "get" =>
              /\ store = b
              /\ g \in DOMAIN store =>
                    call.res.tag = "Some" /\ call.res.val = store[g]
              /\ g \notin DOMAIN store => call.res.tag = "None"
        /\ call.op = "contains" =>
              /\ store = b
              /\ call.res.tag = "true" <=> g \in DOMAIN store

\* add(2, 1) on a store holding 0 under both 1 and 2 returned the old 0,
\* replaced it, and kept goal 1's entry.
C19_Witness ==
    /\ call.op = "add" /\ call.goals = <<2>> /\ call.arg = 1
    /\ call.before = [k \in {1, 2} |-> 0]
    /\ call.res.tag = "Some" /\ call.res.val = 0
    /\ store[2] = 1 /\ store[1] = 0

\* ------------------------------------------------------------------ C20
\* C20: an invocation that returns Done(sol) for the current goal g while
\* the dependency stack is not empty commits sol under g (the other entries
\* of the store stay), removes the last pushed frame (g2, s2) and nothing
\* else from the stack, and leaves the loop running with g2 as the current
\* goal and s2 as its state: the next invocation is for g2 with s2.
C20_DoneTransition ==
    [][(last'.out.kind = "Ok" /\ dependency_stack # <<>>) =>
          LET n == Len(dependency_stack) IN
          /\ last'.goal = current_goal
          /\ DOMAIN store' = DOMAIN store \cup {current_goal}
          /\ store'[current_goal] = last'.out.arg
          /\ \A k \in DOMAIN store \ {current_goal} : store'[k] = store[k]
          /\ current_goal' = dependency_stack[n].goal
          /\ current_state' = dependency_stack[n].state
          /\ dependency_stack' = [i \in 1..(n - 1) |-> dependency_stack[i]]
          /\ result' = Running]_vars

\* With two goals suspended, goal 3 returned Done(1): it is committed, the
\* top frame (goal 2 with the state it left) is resumed, goal 1 still waits.
C20_Witness ==
    /\ last = [goal |-> 3, out |-> [kind |-> "Ok", arg |-> 1]]
    /\ 3 \in Stored /\ store[3] = 1
    /\ current_goal = 2 /\ current_state = Some(<<2, 1>>)
    /\ StackGoalSeq = <<1>> /\ ~Terminated

\* ------------------------------------------------------------------ C21
\* The frame a suspension of the current goal leaves: the goal with the
\* state its strategy left in this invocation.
SuspendedFrame == [goal |-> current_goal, state |-> written'[current_goal]]

\* C21 as stated: an invocation that returns NeedsSubgoal(g') for the
\* current goal g with state s ends the run with CircularDependency(g') if
\* g' is a goal on the dependency stack; otherwise (g, s) is pushed on top
\* of the stack, the store is unchanged and the loop runs on with g' as the
\* current goal and an empty state.
C21_SubgoalTransitionAsStated ==
    [][last'.out.kind = "Dependency" =>
          IF last'.out.arg \in StackGoals
          THEN result' = [kind |-> "CircularDependency", arg |-> last'.out.arg]
          ELSE /\ dependency_stack' = Append(dependency_stack, SuspendedFrame)
               /\ store' = store
               /\ current_goal' = last'.out.arg
               /\ current_state' = None
               /\ result' = Running]_vars

\* C21 amended: an invocation that returns NeedsSubgoal(g') for the current
\* goal g with state s pushes (g, s) on top of the stack and leaves the
\* store unchanged; if g' is then a goal on the stack (g' is g itself or a
\* goal suspended before) the run ends with CircularDependency(g');
\* otherwise the loop runs on with g' as the current goal and an empty
\* state.
C21_SubgoalTransition ==
    [][last'.out.kind = "Dependency" =>
          /\ last'.goal = current_goal
          /\ dependency_stack' = Append(dependency_stack, SuspendedFrame)
          /\ store' = store
          /\ IF last'.out.arg \in StackGoals \cup {current_goal}
             THEN result' = [kind |-> "CircularDependency", arg |-> last'.out.arg]
             ELSE /\ current_goal' = last'.out.arg
                  /\ current_state' = None
                  /\ result' = Running]_vars

\* Goal 1, resumed with the state it had left, wrote another state and
\* requested goal 3: its frame with the new state is on the stack, goal 2
\* (solved before) is still stored, and goal 3 is current with no state.
C21_Witness ==
    /\ last = [goal |-> 1, out |-> [kind |-> "Dependency", arg |-> 3]]
    /\ dependency_stack = <<[goal |-> 1, state |-> Some(<<1, 2>>)]>>
    /\ Stored = {2}
    /\ current_goal = 3 /\ current_state = None /\ ~Terminated

\* ------------------------------------------------------------------ C22
\* C22: an invocation that returns TailRedirect(g') for the current goal g
\* with state s ends the run with CircularDependency(g') if g' is a goal on
\* the dependency stack; otherwise the stack and the store are exactly as
\* they were (no frame for g, s is dropped) and the loop runs on with g' as
\* the current goal and an empty state.
C22_TailTransition ==
    [][last'.out.kind = "Tail" =>
          /\ last'.goal = current_goal
          /\ dependency_stack' = dependency_stack
          /\ store' = store
          /\ IF last'.out.arg \in StackGoals
             THEN result' = [kind |-> "CircularDependency", arg |-> last'.out.arg]
             ELSE /\ current_goal' = last'.out.arg
                  /\ current_state' = None
                  /\ result' = Running
                  /\ \A i \in DOMAIN dependency_stack' :
                        dependency_stack'[i].goal # current_goal]_vars

\* Goal 2, requested by goal 1, redirected to goal 3 after a commit: the
\* stack still holds goal 1 only, and goal 3 is current with no state.
C22_Witness ==
    /\ last = [goal |-> 2, out |-> [kind |-> "Tail", arg |-> 3]]
    /\ StackGoalSeq = <<1>> /\ Stored # {}
    /\ current_goal = 3 /\ current_state = None /\ ~Terminated

\* ------------------------------------------------------------------ C23
\* The suspended goals wait in a chain: each frame for the goal of the frame
\* above it, the top frame for the current goal, which itself waits for
\* nothing; after NeedsSubgoal(g') the goal about to be invoked is g'.
C23_RequestChain ==
    /\ \A i \in 1..(Len(dependency_stack) - 1) :
          awaits[dependency_stack[i].goal] = <<dependency_stack[i + 1].goal>>
    /\ ~Terminated =>
          /\ dependency_stack # <<>> =>
                awaits[dependency_stack[Len(dependency_stack)].goal] = <<current_goal>>
          /\ awaits[current_goal] = <<>>
          /\ last.out.kind = "Dependency" => current_goal = last.out.arg

\* A goal with a pending request is made current only in a step after which
\* the subgoal it waits for is in the store; it is the goal just committed.
C23_ResumedWhenStored ==
    [][(result' = Running /\ awaits[current_goal'] # <<>>) =>
          /\ awaits[current_goal'][1] \in DOMAIN store'
          /\ awaits[current_goal'][1] = current_goal
          /\ last'.out.kind = "Ok"]_vars

\* C23: for a strategy that never returns TailRedirect, after goal g returns
\* NeedsSubgoal(g') the next invocation is for g', g is suspended until g'
\* has been committed, and so at every resumption of a suspended goal the
\* subgoal it was waiting for is in the store.
C23_DepthFirst == []C23_RequestChain /\ C23_ResumedWhenStored

\* Goal 1 requested goal 2, goal 2 requested goal 3; goal 3 is committed
\* and goal 2 is resumed while goal 1 still waits for it.
C23_Witness ==
    /\ task.kind = "any" /\ ~task.tail
    /\ StackGoalSeq = <<1>> /\ awaits[1] = <<2>>
    /\ current_goal = 2 /\ ~Terminated
    /\ last.goal = 3 /\ last.out.kind = "Ok" /\ 3 \in Stored

\* ------------------------------------------------------------------ C24
\* C24: when execute was handed a store without the root goal, then at
\* every head of the loop, whatever outcomes the strategy has returned, the
\* current goal is not in the store.
C24_CurrentNotStored ==
    (root \notin DOMAIN store0 /\ ~Terminated) => current_goal \notin DOMAIN store

\* ------------------------------------------------------------------ C25
\* C25: an invocation for the current goal g that returns NeedsSubgoal(g)
\* ends the run in that same step with CircularDependency(g); g is not made
\* current again with a fresh state (it stays as it was, its frame on top of
\* the stack), and no invocation follows a result.
C25_SelfDependency ==
    [][/\ result = Running
       /\ (last'.out.kind = "Dependency" /\ last'.out.arg = current_goal) =>
             /\ last'.goal = current_goal
             /\ result' = [kind |-> "CircularDependency", arg |-> current_goal]
             /\ current_goal' = current_goal
             /\ current_state' = current_state
             /\ store' = store
             /\ Len(dependency_stack') = Len(dependency_stack) + 1
             /\ dependency_stack'[Len(dependency_stack')].goal = current_goal]_vars

\* Goal 2, requested by goal 1, requested itself: the run ended with
\* CircularDependency(2).
C25_Witness ==
    /\ last = [goal |-> 2, out |-> [kind |-> "Dependency", arg |-> 2]]
    /\ result = [kind |-> "CircularDependency", arg |-> 2]
    /\ StackGoalSeq = <<1, 2>>

\* ------------------------------------------------------------------ C26
\* After a run from an empty store has returned, neither the root goal nor
\* the goal whose Done produced the returned solution is in the store.
C26_ReturnedNotStored ==
    (store0 = <<>> /\ result.kind = "Ok") =>
        /\ root \notin DOMAIN store
        /\ last.goal \notin DOMAIN store

\* An invocation that returns Done(sol) with an empty dependency stack ends
\* the run with sol and leaves the store as it was.
C26_ReturnLeavesStore ==
    [][(last'.out.kind = "Ok" /\ dependency_stack = <<>>) =>
          /\ result' = [kind |-> "Ok", arg |-> last'.out.arg]
          /\ store' = store]_vars

\* C26: the root goal's solution is never committed: Done(sol) with an
\* empty stack returns sol and leaves the store unchanged, so after a
\* successful run the store has no entry for the root nor for the goal that
\* produced the returned solution.
C26_RootNeverCommitted == []C26_ReturnedNotStored /\ C26_ReturnLeavesStore

\* ------------------------------------------------------------------ C27
\* C27: the store changes only in a step whose outcome is Done with a
\* non-empty dependency stack, and then only in the entry of the current
\* goal; every other step (NeedsSubgoal, TailRedirect, Fails, Done with an
\* empty stack), the accessor calls the strategy made in it included,
\* leaves the store as it was.
C27_StoreFrame ==
    [][IF last'.out.kind = "Ok" /\ dependency_stack # <<>>
       THEN /\ DOMAIN store' \subseteq DOMAIN store \cup {current_goal}
            /\ \A k \in DOMAIN store \ {current_goal} :
                  k \in DOMAIN store' /\ store'[k] = store[k]
       ELSE store' = store]_vars

\* With goals 2 and 3 committed, goal 1 returned Done with an empty stack:
\* the store still holds exactly goals 2 and 3.
C27_Witness ==
    /\ result.kind = "Ok" /\ last.goal = 1 /\ root = 1
    /\ Stored = {2, 3} /\ pushed

\* ------------------------------------------------------------------ C28
\* The goals a request for g can make current: g, and the goals its tail
\* redirects lead to.
RECURSIVE TailClosure(_, _)
TailClosure(t, S) ==
    LET N == S \cup UNION {Redirects(t, g) : g \in S}
    IN  IF N = S THEN S ELSE TailClosure(t, N)

\* The goals with a subgoal request still pending.
Pending == {g \in DOMAIN awaits : awaits[g] # <<>>}

\* The stack holds exactly the goals with a pending request, each once, and
\* every entry below the top requested the entry above it, directly or
\* through tail redirects.
C28_StackIsPendingChain ==
    /\ StackGoals = Pending
    /\ Cardinality(StackGoals) = Len(dependency_stack)
    /\ \A i \in 1..(Len(dependency_stack) - 1) :
          dependency_stack[i + 1].goal
              \in TailClosure(task, {awaits[dependency_stack[i].goal][1]})

\* The top entry requested the current goal, directly or through tail
\* redirects.
C28_TopRequestedCurrent ==
    dependency_stack # <<>> =>
        current_goal \in
            TailClosure(task, {awaits[dependency_stack[Len(dependency_stack)].goal][1]})

\* C28 as stated: in every reachable state the stack is the chain of the
\* pending requests, from the root's side to the requester of the current
\* goal, and its length does not exceed the number of distinct goals minus
\* one.
C28_StackDepthAsStated ==
    task.kind = "graph" =>
        /\ C28_StackIsPendingChain
        /\ C28_TopRequestedCurrent
        /\ Len(dependency_stack) <= Cardinality(task.goals) - 1

\* C28 amended: in every reachable state the stack is the chain of the
\* pending requests; at every head of the loop, and in every final state
\* but that of a cycle found on a subgoal request, the top entry requested
\* the current goal and the length does not exceed the number of distinct
\* goals minus one; when a subgoal request closes a cycle, the requester's
\* frame is on top of the stack, the requested goal is an entry of the
\* stack, and the length does not exceed the number of distinct goals.
C28_StackDepth ==
    task.kind = "graph" =>
        /\ C28_StackIsPendingChain
        /\ IF result.kind = "CircularDependency" /\ last.out.kind = "Dependency"
           THEN /\ dependency_stack[Len(dependency_stack)].goal = last.goal
                /\ awaits[last.goal][1] \in StackGoals
                /\ Len(dependency_stack) <= Cardinality(task.goals)
           ELSE /\ C28_TopRequestedCurrent
                /\ Len(dependency_stack) <= Cardinality(task.goals) - 1

\* Goal 3 requested goal 2, which redirected to goal 1: one frame, for goal
\* 3 waiting for goal 2, while goal 1 is current.
C28_Witness ==
    /\ task.kind = "graph"
    /\ StackGoalSeq = <<3>> /\ awaits[3] = <<2>>
    /\ last = [goal |-> 2, out |-> [kind |-> "Tail", arg |-> 1]]
    /\ current_goal = 1 /\ ~Terminated

\* ------------------------------------------------------------------ C29
\* Runs of the graph strategies over acyclic goal graphs, from a store that
\* holds the reference solution of any set of goals (none included).
InitGraphSeeded ==
    \E t \in {x \in GraphTasks : Acyclic(x)} : \E D \in SUBSET Goals :
        Execute(t, NumGoals, [g \in D |-> Reference(t, g)])

SpecGraphSeeded == InitGraphSeeded /\ [][Next]_vars

\* C29: for a deterministic strategy over an acyclic goal graph, started
\* from an empty store or from one whose entries are all correct, every
\* entry of the store is, in every reachable state, the reference recursive
\* solution of its goal.
C29_StoreCorrect ==
    \A g \in DOMAIN store : store[g] = Reference(task, g)

\* From an empty store, goal 2 was committed with the sum over its subgoal
\* and goal 1 with its own value, before the root returned.
C29_Witness ==
    /\ store0 = <<>> /\ task.deps[2] = <<1>> /\ task.deps[NumGoals] = <<2, 1>>
    /\ task.twist.kind = "None"
    /\ store = [g \in {1, 2} |-> 1]
    /\ result = [kind |-> "Ok", arg |-> 2]

\* ------------------------------------------------------------------ C30
\* C30: with one store shared by sequential calls of execute and a strategy
\* that never returns TailRedirect, a goal that was in the store when the
\* call started is passed to the strategy during the call only if it is the
\* call's root, and it keeps its stored solution throughout the call, so
\* also after it.
C30_StoredGoalsKept ==
    /\ ~Terminated => (current_goal \in DOMAIN store0 => current_goal = root)
    /\ last.goal \in DOMAIN store0 => last.goal = root
    /\ \A g \in DOMAIN store0 : g \in DOMAIN store /\ store[g] = store0[g]

\* A later call, for goal 1, started with goal 2 stored with solution 1,
\* committed goal 3 and returned: goal 2 still has solution 1.
C30_Witness ==
    /\ store0 = [g \in {2} |-> 1] /\ root = 1
    /\ result.kind = "Ok" /\ pushed
    /\ DOMAIN store = {2, 3} /\ store[2] = 1
====
